---- MODULE Spec2Model ----
(***************************************************************************)
(* SnowflakeVectorStore (src/langchain_snowpoc/vectorstores.py) over one   *)
(* table of the backing store.  Every session.sql(...).collect() of the    *)
(* code is one atomic statement of the engine; a call of add_texts is a    *)
(* sequence of such statements, so calls of different store instances      *)
(* interleave between statements.                                          *)
(*                                                                         *)
(* The engine is not part of the repository.  It is taken to run each      *)
(* statement atomically, to reject a statement whose literal is malformed  *)
(* or whose vector does not have the declared VECTOR(float, n) type, and   *)
(* to list rows of equal sort key, or of a query without ORDER BY, in any  *)
(* order.  Embeddings and query vectors are non-zero; the cosine is kept   *)
(* as an exact fraction, not as a float.                                   *)
(*                                                                         *)
(* SnowflakeChatMessageHistory (chat_message_histories.py) over one message*)
(* table is the specification ChatSpec: one INSERT per message, the        *)
(* engine's clock read by each INSERT (it may stand still between two      *)
(* statements), SELECT ... ORDER BY created_at and DELETE.                 *)
(***************************************************************************)
EXTENDS Integers, Sequences, FiniteSets, TLC

VARIABLES table, nextRowId, stores, lastSearch, calls,
          messageTable, now, histories, lastReturn, appended, statements,
          messageCalls

\* the variables of the vector store and those of the chat message history
storeVars == <<table, nextRowId, stores, lastSearch, calls>>
chatVars == <<messageTable, now, histories, lastReturn, appended, statements,
              messageCalls>>

vars == <<storeVars, chatVars>>

----------------------------------------------------------------------------
(* Bounds of the model *)

\* largest k passed to a similarity search
MaxK == 2
\* AUTOINCREMENT values handed out by the table
MaxRowId == 4
\* calls of add_texts and of the searches begun over a run, all store
\* instances together
MaxCalls == 2

\* the store instances (objects of class SnowflakeVectorStore) bound to the table
StoreIds == {"s1", "s2"}

----------------------------------------------------------------------------
(* Inputs *)

\* texts are strings: sequences of characters
TextA == <<"a">>
TextB == <<"b", "'">>
TextD == <<"d", "\\">>
\* the texts arguments of add_texts
TextLists == {<<>>, <<TextA>>, <<TextA, TextA>>, <<TextA, TextB>>,
              <<TextA, TextD>>, <<TextD, TextA>>}

\* metadata documents, written as the text json.dumps gives for them
MetaEmpty == <<"{", "}">>
MetaK == <<"{", "k", "}">>

\* the metadatas argument: None, or a list of metadata documents
None == [given |-> FALSE, list |-> <<>>]
MetadataLists == {None} \cup {[given |-> TRUE, list |-> l] :
                                 l \in {<<>>, <<MetaK>>, <<MetaK, MetaK>>}}

\* the default of the vector_length parameter of __init__
VECTOR_LENGTH == 768

\* vector_length values a store is constructed with
VectorLengths == {2, 3}

\* the embedding provider: a fixed vector of two numbers per text
EmbedOne(text) ==
    CASE text = TextA -> <<1, 0>>
      [] text = TextB -> <<0, 1>>
      [] OTHER        -> <<2, 1>>

embed_documents(texts) == [j \in 1..Len(texts) |-> EmbedOne(texts[j])]

\* query vectors: two of the provider's width, one of another width
Queries == {<<1, 1>>, <<-1, 1>>, <<1, 0, 0>>}

Min(a, b) == IF a <= b THEN a ELSE b

----------------------------------------------------------------------------
(* Pure helpers of add_texts *)

\* hashlib.sha256(text.encode("UTF-8")).hexdigest(): a digest, one per text
Sha256Hex(text) == <<"sha256", text>>

\* row[0].replace("'", "\\'")
RECURSIVE EscapeQuotes(_)
EscapeQuotes(text) ==
    IF text = <<>> THEN <<>>
    ELSE (IF Head(text) = "'" THEN <<"\\", "'">> ELSE <<Head(text)>>)
             \o EscapeQuotes(Tail(text))

\* zip(texts, metadatas, embeds): as long as the shortest of the three
Zip3(texts, metadatas, embeds) ==
    [j \in 1..Min(Len(texts), Min(Len(metadatas), Len(embeds))) |->
        <<texts[j], metadatas[j], embeds[j]>>]

\* if not metadatas: metadatas = [{} for _ in texts]
DefaultMetadatas(texts, metadatas) ==
    IF ~metadatas.given \/ metadatas.list = <<>>
    THEN [j \in 1..Len(texts) |-> MetaEmpty]
    ELSE metadatas.list

\* data_input of add_texts
DataInput(texts, metadatas) ==
    Zip3(texts, DefaultMetadatas(texts, metadatas), embed_documents(texts))

----------------------------------------------------------------------------
(* The engine: string literals *)

\* The engine reads the body of a '...' literal of a statement: a backslash
\* takes the next character with it, an unescaped quote ends the literal.
\* body is what the code put between the quotes; the result is the string
\* the literal denotes (value), and ok is FALSE when the literal does not end
\* where the code meant it to end (the statement is then rejected).
RECURSIVE ReadLiteral(_, _)
ReadLiteral(body, acc) ==
    IF body = <<>> THEN [ok |-> TRUE, value |-> acc]
    ELSE IF Head(body) = "'" THEN [ok |-> FALSE, value |-> acc]
    ELSE IF Head(body) = "\\"
         THEN IF Len(body) = 1 THEN [ok |-> FALSE, value |-> acc]
              ELSE ReadLiteral(Tail(Tail(body)), Append(acc, body[2]))
    ELSE ReadLiteral(Tail(body), Append(acc, Head(body)))

SqlLiteral(body) == ReadLiteral(body, <<>>)

----------------------------------------------------------------------------
(* The engine: the table *)

NoTable == [exists |-> FALSE, width |-> 0, rows |-> <<>>]

\* (variant: CREATE OR REPLACE TABLE, which drops the rows of an existing table)
CreateOrReplaceTable(t, vector_length) ==
    [exists |-> TRUE, width |-> vector_length, rows |-> <<>>]

\* CREATE TABLE IF NOT EXISTS ... text_embedding vector(float, vector_length)
CreateTableIfNotExists(t, vector_length) ==
    IF t.exists THEN t
    ELSE [exists |-> TRUE, width |-> vector_length, rows |-> <<>>]

\* SELECT NVL(max(rowid), 0)
MaxOf(S) == IF S = {} THEN 0 ELSE CHOOSE y \in S : \A z \in S : z <= y

RowIds(rows) == {rows[j].rowid : j \in 1..Len(rows)}

MaxRowIdOf(rows) == MaxOf(RowIds(rows))

\* the MERGE statement of add_texts is rejected by the engine when a literal
\* is malformed, when the vector does not cast to VECTOR(float, vector_length)
\* or when that type is not the type of the column
MergeRejected(t, vector_length, row) ==
    \/ ~SqlLiteral(EscapeQuotes(row[1])).ok
    \/ ~SqlLiteral(row[2]).ok
    \/ Len(row[3]) # vector_length
    \/ vector_length # t.width

NewRow(rowid, row) ==
    [rowid          |-> rowid,
     rowhash        |-> Sha256Hex(row[1]),
     text           |-> SqlLiteral(EscapeQuotes(row[1])).value,
     metadata       |-> SqlLiteral(row[2]).value,
     text_embedding |-> row[3]]

\* (variant: a plain INSERT, without the ON s.rowhash = t.rowhash test)
InsertAlways(rows, rowid, row) == Append(rows, NewRow(rowid, row))

\* (variant: MERGE with WHEN MATCHED THEN UPDATE SET metadata = s.metadata)
MergeUpdateOnMatch(rows, rowid, row) ==
    IF \E j \in 1..Len(rows) : rows[j].rowhash = Sha256Hex(row[1])
    THEN [j \in 1..Len(rows) |->
            IF rows[j].rowhash = Sha256Hex(row[1])
            THEN [rows[j] EXCEPT !.metadata = SqlLiteral(row[2]).value]
            ELSE rows[j]]
    ELSE Append(rows, NewRow(rowid, row))

\* MERGE INTO t USING (SELECT ...) s ON s.rowhash = t.rowhash
\* WHEN NOT MATCHED THEN INSERT (rowhash, text, metadata, text_embedding)
MergeInto(rows, rowid, row) ==
    LET _hash == Sha256Hex(row[1])
    IN IF \E j \in 1..Len(rows) : rows[j].rowhash = _hash
       THEN rows
       ELSE Append(rows, NewRow(rowid, row))

----------------------------------------------------------------------------
(* The engine: cosine similarity and ORDER BY ... DESC LIMIT k *)

RECURSIVE Dot(_, _)
Dot(a, b) == IF a = <<>> \/ b = <<>> THEN 0
             ELSE Head(a) * Head(b) + Dot(Tail(a), Tail(b))

\* VECTOR_COSINE_SIMILARITY(e, q) = dot(e,q) / (|e| |q|) of two non-zero
\* vectors, kept exact as the fraction num/den = sign(dot) * dot^2 / (|e|^2 |q|^2),
\* which orders pairs of vectors as the cosine does
VectorCosineSimilarity(e, q) ==
    LET d == Dot(e, q)
    IN [num |-> (IF d < 0 THEN -1 ELSE 1) * d * d, den |-> Dot(e, e) * Dot(q, q)]

ScoreLess(x, y) == x.num * y.den < y.num * x.den
ScoreEq(x, y) == x.num * y.den = y.num * x.den

Perms(S) == {p \in [1..Cardinality(S) -> S] :
                \A i, j \in 1..Cardinality(S) : p[i] = p[j] => i = j}

\* (variant: ORDER BY similarity ASC)
OrderBySimilarityAsc(rows, q) ==
    {p \in Perms(1..Len(rows)) :
        \A i, j \in 1..Len(rows) :
            i < j => ~ScoreLess(VectorCosineSimilarity(rows[p[j]].text_embedding, q),
                                VectorCosineSimilarity(rows[p[i]].text_embedding, q))}

\* the orders in which ORDER BY similarity DESC may list the rows: any order
\* in which no row is followed by a row of higher similarity
OrderBySimilarityDesc(rows, q) ==
    {p \in Perms(1..Len(rows)) :
        \A i, j \in 1..Len(rows) :
            i < j => ~ScoreLess(VectorCosineSimilarity(rows[p[i]].text_embedding, q),
                                VectorCosineSimilarity(rows[p[j]].text_embedding, q))}

\* LIMIT k
Limit(s, k) == SubSeq(s, 1, Min(k, Len(s)))

\* the query of similarity_search_with_score_by_vector is rejected when the
\* embedding does not cast to VECTOR(float, vector_length) or that type is
\* not the type of the column text_embedding
SearchRejected(t, vector_length, embedding) ==
    \/ Len(embedding) # vector_length
    \/ vector_length # t.width

\* the loop building (Document(page_content, metadata), similarity) pairs
Documents(rows, order, q) ==
    [j \in 1..Len(order) |->
        [page_content |-> rows[order[j]].text,
         metadata     |-> rows[order[j]].metadata,
         similarity   |-> VectorCosineSimilarity(rows[order[j]].text_embedding, q)]]

\* [doc for doc, _ in documents]
DocsOnly(documents) ==
    [j \in 1..Len(documents) |->
        [page_content |-> documents[j].page_content,
         metadata     |-> documents[j].metadata]]

----------------------------------------------------------------------------
(* SnowflakeChatMessageHistory (src/langchain_snowpoc/chat_message_histories.py) *)
(* over one table, which create_tables has created.  Strings are sequences *)
(* of characters; a message is modelled by its content.                    *)

\* the history objects of the program
HistoryIds == {"h1", "h2"}

\* most add_messages, get_messages and clear calls in a behaviour
MaxMessageCalls == 3
\* most rows of the message table
MaxMessages == 3

\* n times the character c
RECURSIVE Rep(_, _)
Rep(c, n) == IF n = 0 THEN <<>> ELSE <<c>> \o Rep(c, n - 1)

\* 00000000-0000-0000-0000-00000000000c
Uuid(c) ==
    Rep("0", 8) \o <<"-">> \o Rep("0", 4) \o <<"-">> \o Rep("0", 4) \o <<"-">>
    \o Rep("0", 4) \o <<"-">> \o Rep("0", 11) \o <<c>>

UrnPrefix == <<"u", "r", "n", ":">>
UuidPrefix == <<"u", "u", "i", "d", ":">>

\* the session ids given to the constructor
SessionA == Uuid("a")
SessionB == Uuid("b")
SessionAUrn == UrnPrefix \o UuidPrefix \o SessionA
SessionShort == <<"a", "b", "c">>
SessionNotHex == Uuid("g")
SessionIds == {SessionA, SessionB, SessionAUrn, SessionShort, SessionNotHex}

\* the table names given to the constructor
TableNames == {<<"t">>, <<"t", "-">>}

\* the messages, and the batches given to add_messages
MessageHi == <<"h", "i">>
MessageQuote == <<"\"">>
MessageDollars == <<"$", "$">>
MessageLists == {<<>>, <<MessageHi>>, <<MessageHi, MessageQuote>>,
                 <<MessageHi, MessageDollars>>}

----------------------------------------------------------------------------
(* uuid.UUID(session_id) and re.match(r"^\w+$", table_name) *)

HexDigits == {"0", "1", "2", "3", "4", "5", "6", "7", "8", "9",
              "a", "b", "c", "d", "e", "f", "A", "B", "C", "D", "E", "F"}

\* s.replace(old, ''): the occurrences of old are taken out, from the left
RECURSIVE Remove(_, _)
Remove(s, old) ==
    LET found == {j \in 1..(Len(s) - Len(old) + 1) :
                     SubSeq(s, j, j + Len(old) - 1) = old}
        first == CHOOSE j \in found : \A i \in found : j <= i
    IN IF found = {} THEN s
       ELSE SubSeq(s, 1, first - 1)
            \o Remove(SubSeq(s, first + Len(old), Len(s)), old)

\* s.strip(chars)
RECURSIVE LStrip(_, _)
LStrip(s, chars) ==
    IF s # <<>> /\ Head(s) \in chars THEN LStrip(Tail(s), chars) ELSE s

RECURSIVE RStrip(_, _)
RStrip(s, chars) ==
    IF s # <<>> /\ s[Len(s)] \in chars
    THEN RStrip(SubSeq(s, 1, Len(s) - 1), chars) ELSE s

Strip(s, chars) == RStrip(LStrip(s, chars), chars)

\* uuid.UUID(hex) returns (TRUE) or raises ValueError (FALSE): the string
\* without 'urn:', 'uuid:', surrounding braces and hyphens has 32 characters
\* and int(hex, 16) reads it; over the characters of SessionIds, which have
\* no sign, blank, underscore or x, int reads exactly the hexadecimal digits
UUID(session_id) ==
    LET hex == Remove(Strip(Remove(Remove(session_id, UrnPrefix), UuidPrefix),
                            {"{", "}"}),
                      <<"-">>)
    IN /\ Len(hex) = 32
       /\ \A j \in 1..Len(hex) : hex[j] \in HexDigits

\* the characters of \w among those of TableNames
WordChars == HexDigits \cup {"t", "_"}

\* re.match(r"^\w+$", table_name); $ also matches before a final newline
MatchWord(table_name) ==
    LET body == IF table_name # <<>> /\ table_name[Len(table_name)] = "\n"
                THEN SubSeq(table_name, 1, Len(table_name) - 1)
                ELSE table_name
    IN body # <<>> /\ \A j \in 1..Len(body) : body[j] \in WordChars

----------------------------------------------------------------------------
(* json.dumps, the $$...$$ literal, PARSE_JSON and json.loads *)

RECURSIVE JsonEscape(_)
JsonEscape(text) ==
    IF text = <<>> THEN <<>>
    ELSE (IF Head(text) \in {"\"", "\\"} THEN <<"\\", Head(text)>>
          ELSE <<Head(text)>>) \o JsonEscape(Tail(text))

\* json.dumps(message_to_dict(message)): the content as a JSON string
JsonDumps(message) == <<"\"">> \o JsonEscape(message) \o <<"\"">>

\* the engine reads the body of a $$...$$ literal as it is; the literal ends
\* at the first $$, so a body holding $$ ends early (ok is FALSE, the
\* statement is rejected)
DollarQuoted(body) ==
    [ok |-> ~ \E j \in 1..(Len(body) - 1) : body[j] = "$" /\ body[j + 1] = "$",
     value |-> body]

\* the JSON string whose opening quote has been read
RECURSIVE ReadJson(_, _)
ReadJson(rest, acc) ==
    IF rest = <<>> THEN [ok |-> FALSE, value |-> acc]
    ELSE IF Head(rest) = "\"" THEN [ok |-> Tail(rest) = <<>>, value |-> acc]
    ELSE IF Head(rest) = "\\"
         THEN IF Len(rest) = 1 THEN [ok |-> FALSE, value |-> acc]
              ELSE ReadJson(Tail(Tail(rest)), Append(acc, rest[2]))
    ELSE ReadJson(Tail(rest), Append(acc, Head(rest)))

\* PARSE_JSON(text) of the engine and json.loads(text) of the code
JsonLoads(text) ==
    IF text = <<>> \/ Head(text) # "\"" THEN [ok |-> FALSE, value |-> <<>>]
    ELSE ReadJson(Tail(text), <<>>)

----------------------------------------------------------------------------
(* The statements of the chat message history and what the engine does *)

\* the text '%(session_id)s' of the query templates
SessionIdPlaceholder ==
    <<"%", "(", "s", "e", "s", "s", "i", "o", "n", "_", "i", "d", ")", "s">>

\* session_id CHAR(36)
SessionIdLength == 36

\* values of add_messages: (self._session_id, json.dumps(...)) per message
Values(session_id, messages) ==
    [j \in 1..Len(messages) |-> <<session_id, JsonDumps(messages[j])>>]

\* _insert_message_query(table) % (value[0], value[1]): the bodies of the
\* '...' literal and of the $$...$$ literal of the statement
InsertMessageQuery(value) == [session_id |-> value[1], message |-> value[2]]

\* _get_messages_query(table) % {"session_id": session_id}
GetMessagesQuery(session_id) == [session_id |-> session_id]

\* _delete_by_session_id_query(table), which clear passes on as it is, the
\* dictionary being a second argument of session.sql
DeleteBySessionIdQuery(session_id) == [session_id |-> SessionIdPlaceholder]

\* the INSERT is rejected: a literal that does not end where it should, a
\* session id longer than the column, a text that is not JSON
InsertRejected(query) ==
    \/ ~ SqlLiteral(query.session_id).ok
    \/ Len(SqlLiteral(query.session_id).value) > SessionIdLength
    \/ ~ DollarQuoted(query.message).ok
    \/ ~ JsonLoads(DollarQuoted(query.message).value).ok

\* the row of INSERT ... SELECT '%s', PARSE_JSON($$%s$$); created_at is
\* CURRENT_TIMESTAMP() of the statement
InsertedRow(id, query, created_at) ==
    [id |-> id,
     session_id |-> SqlLiteral(query.session_id).value,
     message |-> JsonLoads(DollarQuoted(query.message).value).value,
     created_at |-> created_at]

\* (variant: no WHERE clause)
AllRows(rows, query) == 1..Len(rows)

\* WHERE session_id = '...': the places of the rows it keeps
WhereSessionId(rows, query) ==
    LET session_id == SqlLiteral(query.session_id).value
    IN {j \in 1..Len(rows) : rows[j].session_id = session_id}

\* ORDER BY created_at ASC: the orders the engine may list the rows at the
\* places S in; rows of equal created_at come in any order
OrderByCreatedAtAsc(rows, S) ==
    {p \in Perms(S) : \A i, j \in 1..Cardinality(S) :
        i < j => rows[p[i]].created_at <= rows[p[j]].created_at}

\* DELETE FROM table WHERE ...: the rows but those at the places S
RECURSIVE DeleteRows(_, _, _)
DeleteRows(rows, S, j) ==
    IF j > Len(rows) THEN <<>>
    ELSE (IF j \in S THEN <<>> ELSE <<rows[j]>>) \o DeleteRows(rows, S, j + 1)

\* messages_from_dict([json.loads(record[0]) for record in ...]), record[0]
\* being the JSON text of the stored value
MessagesFromRecords(rows, order) ==
    [j \in 1..Len(order) |-> JsonLoads(JsonDumps(rows[order[j]].message)).value]

----------------------------------------------------------------------------
(* State *)

NoRepeat == [repeat |-> FALSE, result |-> <<>>]
NoSearch == [vector_length |-> 0, embedding |-> <<>>, k |-> 0, issued |-> 0,
             status |-> "none", documents |-> <<>>, result |-> <<>>]

\* the arguments from_texts was called with, for a store it built
NoFromTexts == [called |-> FALSE, texts |-> <<>>, metadatas |-> None]

NewStore == [pc |-> "none", vector_length |-> 0, texts |-> <<>>,
             metadatas |-> None, i |-> 0, max_id |-> 0,
             status |-> "none", result |-> <<>>, repeatOf |-> NoRepeat,
             from_texts |-> NoFromTexts]

\* the last __init__, get_messages or clear that ended, with the session id
\* it was given or bound to and how it ended, until the next step
NoReturn == [op |-> "none", session_id |-> <<>>, status |-> "none",
             result |-> <<>>]

NewHistory == [pc |-> "none", session_id |-> <<>>, table_name |-> <<>>,
               messages |-> <<>>, status |-> "none"]

\* the first history has been constructed
FirstHistory == "h1"
FirstTableName == <<"t">>

\* the first store instance has been constructed, which created the table
FirstStore == "s1"
FirstVectorLength == 2

Init ==
    /\ table = CreateTableIfNotExists(NoTable, FirstVectorLength)
    /\ nextRowId = 1
    /\ stores = [s \in StoreIds |->
                    IF s = FirstStore
                    THEN [NewStore EXCEPT !.pc = "idle",
                                          !.vector_length = FirstVectorLength]
                    ELSE NewStore]
    /\ lastSearch = NoSearch
    /\ calls = 0
    /\ messageTable = <<>>
    /\ now = 0
    /\ histories = [h \in HistoryIds |->
                       IF h = FirstHistory
                       THEN [NewHistory EXCEPT !.pc = "idle", !.status = "ok",
                                               !.session_id = SessionA,
                                               !.table_name = FirstTableName]
                       ELSE NewHistory]
    /\ lastReturn = NoReturn
    /\ appended = <<>>
    /\ statements = 0
    /\ messageCalls = 0

----------------------------------------------------------------------------
(* SnowflakeVectorStore.__init__ / create_table_if_not_exists *)

Construct(s, vector_length) ==
    /\ stores[s].pc = "none"
    /\ table' = CreateTableIfNotExists(table, vector_length)
    /\ stores' = [stores EXCEPT ![s].pc = "idle",
                                ![s].vector_length = vector_length]
    /\ lastSearch' = NoSearch
    /\ UNCHANGED <<nextRowId, calls, chatVars>>

----------------------------------------------------------------------------
(* SnowflakeVectorStore.add_texts *)

\* the store st after the first statement of add_texts(texts, metadatas):
\* max_id = SELECT NVL(max(rowid), 0); embeds, metadatas and data_input
BeginCall(st, rows, texts, metadatas) ==
    [st EXCEPT
        !.pc = IF DataInput(texts, metadatas) = <<>> THEN "select" ELSE "merge",
        !.texts = texts,
        !.metadatas = metadatas,
        !.i = 1,
        !.max_id = MaxRowIdOf(rows),
        !.status = "running",
        !.result = <<>>,
        !.repeatOf = IF st.status = "ok" /\ st.texts = texts
                     THEN [repeat |-> TRUE, result |-> st.result]
                     ELSE NoRepeat]

AddTextsBegin(s, texts, metadatas) ==
    /\ stores[s].pc = "idle"
    /\ calls < MaxCalls
    /\ calls' = calls + 1
    /\ stores' = [stores EXCEPT ![s] = BeginCall(stores[s], table.rows, texts, metadatas)]
    /\ lastSearch' = NoSearch
    /\ UNCHANGED <<table, nextRowId, chatVars>>

\* (variant: the failure of a statement is swallowed and the loop goes on)
ContinueAfterFailure(st) ==
    [st EXCEPT !.i = st.i + 1,
               !.pc = IF st.i = Len(DataInput(st.texts, st.metadatas))
                      THEN "select" ELSE "merge"]

\* self._session.sql(_q).collect() raises: add_texts ends there, with the
\* exception, returning nothing
RaiseWriteFailure(st) ==
    [st EXCEPT !.pc = "idle", !.status = "WriteFailure",
               !.metadatas = None, !.max_id = 0]

\* one turn of "for row in data_input": the MERGE statement of row i
AddTextsMerge(s) ==
    LET st == stores[s]
        data_input == DataInput(st.texts, st.metadatas)
        row == data_input[st.i]
    IN /\ st.pc = "merge"
       /\ IF MergeRejected(table, st.vector_length, row)
          THEN /\ stores' = [stores EXCEPT ![s] = RaiseWriteFailure(st)]
               /\ UNCHANGED <<table, nextRowId>>
          ELSE /\ nextRowId <= MaxRowId
               /\ table' = [table EXCEPT !.rows = MergeInto(table.rows, nextRowId, row)]
               /\ nextRowId' = IF table'.rows = table.rows THEN nextRowId
                               ELSE nextRowId + 1
               /\ stores' = [stores EXCEPT
                     ![s].i = st.i + 1,
                     ![s].pc = IF st.i = Len(data_input) THEN "select" ELSE "merge"]
       /\ lastSearch' = NoSearch
       /\ UNCHANGED <<calls, chatVars>>

\* SELECT rowid FROM table WHERE rowid > max_id, which has no ORDER BY: the
\* engine lists the rows in any order
AddTextsSelect(s) ==
    LET st == stores[s]
    IN /\ st.pc = "select"
       /\ \E p \in Perms({r \in RowIds(table.rows) : r > st.max_id}) :
             stores' = [stores EXCEPT ![s].pc = "idle",
                                      ![s].status = "ok",
                                      ![s].result = p,
                                      ![s].metadatas = None,
                                      ![s].max_id = 0,
                                      ![s].i = 0]
       /\ lastSearch' = NoSearch
       /\ UNCHANGED <<table, nextRowId, calls, chatVars>>

----------------------------------------------------------------------------
(* SnowflakeVectorStore.from_texts *)

\* (variant: from_texts calls add_texts without the metadatas)
FromTextsCallNoMetadatas(texts, metadatas) ==
    [vector_length |-> VECTOR_LENGTH, texts |-> texts, metadatas |-> None]

\* what from_texts passes on: cls(table=table, session=session,
\* embedding=embedding), so vector_length takes its default, and
\* add_texts(texts=texts, metadatas=metadatas)
FromTextsCall(texts, metadatas) ==
    [vector_length |-> VECTOR_LENGTH, texts |-> texts, metadatas |-> metadatas]

\* vector_store = cls(...): the CREATE TABLE IF NOT EXISTS statement
FromTextsConstruct(s, texts, metadatas) ==
    LET call == FromTextsCall(texts, metadatas)
    IN /\ stores[s].pc = "none"
       /\ calls < MaxCalls
       /\ calls' = calls + 1
       /\ table' = CreateTableIfNotExists(table, call.vector_length)
       /\ stores' = [stores EXCEPT
             ![s].pc = "from_texts",
             ![s].vector_length = call.vector_length,
             ![s].texts = call.texts,
             ![s].metadatas = call.metadatas,
             ![s].from_texts = [called |-> TRUE, texts |-> texts,
                                metadatas |-> metadatas]]
       /\ lastSearch' = NoSearch
       /\ UNCHANGED <<nextRowId, chatVars>>

\* vector_store.add_texts(texts=texts, metadatas=metadatas): its first statement
FromTextsAddTexts(s) ==
    /\ stores[s].pc = "from_texts"
    /\ stores' = [stores EXCEPT ![s] =
          BeginCall([stores[s] EXCEPT !.texts = <<>>, !.metadatas = None],
                    table.rows, stores[s].texts, stores[s].metadatas)]
    /\ lastSearch' = NoSearch
    /\ UNCHANGED <<table, nextRowId, calls, chatVars>>

----------------------------------------------------------------------------
(* The similarity searches *)

\* similarity_search_with_score_by_vector: the one statement it sends and the
\* documents it returns (the statement's failure is raised to the caller)
SearchWithScore(t, vector_length, embedding, k, order) ==
    IF SearchRejected(t, vector_length, embedding)
    THEN [issued |-> 1, status |-> "QueryFailure", documents |-> <<>>]
    ELSE [issued |-> 1, status |-> "ok",
          documents |-> Documents(t.rows, Limit(order, k), embedding)]

\* similarity_search_by_vector: the call of similarity_search_with_score_by_vector
\* and the documents without their scores
similarity_search_by_vector(s, embedding, k) ==
    /\ stores[s].pc = "idle"
    /\ calls < MaxCalls
    /\ calls' = calls + 1
    /\ \E order \in OrderBySimilarityDesc(table.rows, embedding) :
          LET out == SearchWithScore(table, stores[s].vector_length, embedding, k, order)
          IN lastSearch' = [vector_length |-> stores[s].vector_length,
                            embedding |-> embedding, k |-> k,
                            issued |-> out.issued, status |-> out.status,
                            documents |-> out.documents,
                            result |-> DocsOnly(out.documents)]
    /\ UNCHANGED <<table, nextRowId, stores, chatVars>>

----------------------------------------------------------------------------
(* SnowflakeChatMessageHistory.__init__ *)

\* (variant: neither the session id nor the table name is validated)
HistoryInitUnchecked(table_name, session_id) ==
    [NewHistory EXCEPT !.pc = "idle", !.status = "ok",
                       !.session_id = session_id, !.table_name = table_name]

\* the history after __init__(table_name, session_id, session=session): no
\* object (pc "none") when it raised ValueError
HistoryInit(table_name, session_id) ==
    IF ~ UUID(session_id) THEN [NewHistory EXCEPT !.status = "ValueError"]
    ELSE IF ~ MatchWord(table_name) THEN [NewHistory EXCEPT !.status = "ValueError"]
    ELSE [NewHistory EXCEPT !.pc = "idle", !.status = "ok",
                            !.session_id = session_id,
                            !.table_name = table_name]

SnowflakeChatMessageHistory(h, table_name, session_id) ==
    LET new == HistoryInit(table_name, session_id)
    IN /\ histories[h].pc = "none"
       /\ histories' = IF new.pc = "none" THEN histories
                       ELSE [histories EXCEPT ![h] = new]
       /\ lastReturn' = [op |-> "__init__", session_id |-> session_id,
                         status |-> new.status, result |-> <<>>]
       /\ UNCHANGED <<messageTable, now, appended, statements, messageCalls,
                      storeVars>>

----------------------------------------------------------------------------
(* SnowflakeChatMessageHistory.add_messages *)

AddMessagesBegin(h, messages) ==
    /\ histories[h].pc = "idle"
    /\ messageCalls < MaxMessageCalls
    /\ messageCalls' = messageCalls + 1
    /\ histories' = [histories EXCEPT
          ![h].messages = messages,
          ![h].pc = IF messages = <<>> THEN "idle" ELSE "add_messages",
          ![h].status = IF messages = <<>> THEN "ok" ELSE "none"]
    /\ lastReturn' = NoReturn
    /\ UNCHANGED <<messageTable, now, appended, statements, storeVars>>

\* one turn of the loop: self._session.sql(_q).collect().  The clock of the
\* engine may or may not have advanced when the next statement starts.
AddMessagesInsert(h) ==
    LET st == histories[h]
        value == Values(st.session_id, st.messages)[1]
        query == InsertMessageQuery(value)
    IN /\ st.pc = "add_messages"
       /\ statements' = statements + 1
       /\ IF InsertRejected(query)
          THEN /\ histories' = [histories EXCEPT
                     ![h].pc = "idle", ![h].messages = <<>>,
                     ![h].status = "SnowparkSQLException"]
               /\ UNCHANGED <<messageTable, now, appended>>
          ELSE /\ Len(messageTable) < MaxMessages
               /\ messageTable' = Append(messageTable,
                     InsertedRow(Len(appended) + 1, query, now))
               /\ now' \in {now, now + 1}
               /\ appended' = Append(appended,
                     [session_id |-> st.session_id, message |-> Head(st.messages)])
               /\ histories' = [histories EXCEPT
                     ![h].messages = Tail(st.messages),
                     ![h].pc = IF Len(st.messages) = 1 THEN "idle"
                               ELSE "add_messages",
                     ![h].status = IF Len(st.messages) = 1 THEN "ok" ELSE "none"]
       /\ lastReturn' = NoReturn
       /\ UNCHANGED <<messageCalls, storeVars>>

----------------------------------------------------------------------------
(* SnowflakeChatMessageHistory.get_messages *)

get_messages(h) ==
    LET st == histories[h]
        query == GetMessagesQuery(st.session_id)
    IN /\ st.pc = "idle"
       /\ messageCalls < MaxMessageCalls
       /\ messageCalls' = messageCalls + 1
       /\ statements' = statements + 1
       /\ \E order \in OrderByCreatedAtAsc(messageTable,
                          WhereSessionId(messageTable, query)) :
             lastReturn' = [op |-> "get_messages", session_id |-> st.session_id,
                            status |-> "ok",
                            result |-> MessagesFromRecords(messageTable, order)]
       /\ UNCHANGED <<messageTable, now, histories, appended, storeVars>>

----------------------------------------------------------------------------
(* SnowflakeChatMessageHistory.clear *)

\* self._session.sql(query, {"session_id": ...}).collect(): the query text
\* is not formatted.  session.sql is not part of the repository: it either
\* has the engine run the text it was given, or refuses the dictionary.
clear(h) ==
    LET st == histories[h]
        query == DeleteBySessionIdQuery(st.session_id)
    IN /\ st.pc = "idle"
       /\ messageCalls < MaxMessageCalls
       /\ messageCalls' = messageCalls + 1
       /\ \/ /\ statements' = statements + 1
             /\ messageTable' = DeleteRows(messageTable,
                                   WhereSessionId(messageTable, query), 1)
             /\ histories' = [histories EXCEPT ![h].status = "ok"]
             /\ lastReturn' = [op |-> "clear", session_id |-> st.session_id,
                               status |-> "ok", result |-> <<>>]
          \/ /\ histories' = [histories EXCEPT ![h].status = "SnowparkSQLException"]
             /\ lastReturn' = NoReturn
             /\ UNCHANGED <<messageTable, statements>>
       /\ UNCHANGED <<now, appended, storeVars>>

----------------------------------------------------------------------------

Next ==
    \/ \E s \in StoreIds, vl \in VectorLengths : Construct(s, vl)
    \/ \E s \in StoreIds, texts \in TextLists, metadatas \in MetadataLists :
          AddTextsBegin(s, texts, metadatas)
    \/ \E s \in StoreIds : AddTextsMerge(s)
    \/ \E s \in StoreIds : AddTextsSelect(s)
    \/ \E s \in StoreIds, texts \in TextLists, metadatas \in MetadataLists :
          FromTextsConstruct(s, texts, metadatas)
    \/ \E s \in StoreIds : FromTextsAddTexts(s)
    \/ \E s \in StoreIds, q \in Queries, k \in 1..MaxK :
          similarity_search_by_vector(s, q, k)

Spec == Init /\ [][Next]_vars

\* the chat message histories alone
ChatNext ==
    \/ \E h \in HistoryIds, table_name \in TableNames, session_id \in SessionIds :
          SnowflakeChatMessageHistory(h, table_name, session_id)
    \/ \E h \in HistoryIds, messages \in MessageLists : AddMessagesBegin(h, messages)
    \/ \E h \in HistoryIds : AddMessagesInsert(h)
    \/ \E h \in HistoryIds : get_messages(h)
    \/ \E h \in HistoryIds : clear(h)

ChatSpec == Init /\ [][ChatNext]_vars

----------------------------------------------------------------------------
(* Properties *)

RowSet == {table.rows[j] : j \in 1..Len(table.rows)}

HashStored(text) == \E r \in RowSet : r.rowhash = Sha256Hex(text)

RowOfText(text) == CHOOSE r \in RowSet : r.rowhash = Sha256Hex(text)

\* the store has sent the MERGE statement of item j of its running call
Merged(s, j) ==
    /\ stores[s].pc \in {"merge", "select"}
    /\ j \in 1..Len(DataInput(stores[s].texts, stores[s].metadatas))
    /\ stores[s].pc = "merge" => j < stores[s].i

\* the step is a step of store s
StepOf(s) == stores'[s] # stores[s]

\* C1: under any interleaving of the statements of add_texts calls of the
\* store instances, no two records of the table have the same rowhash.
C1_NoDuplicateHash ==
    \A i, j \in 1..Len(table.rows) :
        table.rows[i].rowhash = table.rows[j].rowhash => i = j

\* two running calls of different instances have both sent the MERGE of the
\* same text, and the table holds one record
C1_Witness ==
    \E s, o \in StoreIds :
        /\ s # o
        /\ Merged(s, 1) /\ Merged(o, 1)
        /\ stores[s].texts[1] = stores[o].texts[1]
        /\ HashStored(stores[s].texts[1])

\* C2: two successive calls add_texts([T]) on the same store return the same
\* row id.
C2_SameRowIdTwice ==
    \A s \in StoreIds :
        (/\ stores[s].pc = "idle"
         /\ stores[s].status = "ok"
         /\ Len(stores[s].texts) = 1
         /\ stores[s].repeatOf.repeat)
        => stores[s].result = stores[s].repeatOf.result

\* C3: add_texts(texts) returns as many row ids as there are texts, the i-th
\* being the row id of the record holding the i-th text.
C3_IdsInInputOrder ==
    \A s \in StoreIds :
        (stores[s].pc = "idle" /\ stores[s].status = "ok")
        => /\ Len(stores[s].result) = Len(stores[s].texts)
           /\ \A j \in 1..Len(stores[s].texts) :
                 /\ HashStored(stores[s].texts[j])
                 /\ stores[s].result[j] = RowOfText(stores[s].texts[j]).rowid

\* C4: first write wins: the MERGE statement of a text whose rowhash is stored
\* leaves the table as it is, so the record keeps the text, metadata and
\* embedding of the first write and no record is added.
C4_FirstWriteWins ==
    [][\A s \in StoreIds :
          (/\ stores[s].pc = "merge"
           /\ StepOf(s)
           /\ stores'[s].status # "WriteFailure"
           /\ HashStored(stores[s].texts[stores[s].i]))
          => table' = table]_vars

\* a running call has sent the MERGE of a text that is stored with other
\* metadata than the call gave for it
C4_Witness ==
    \E s \in StoreIds :
        \E j \in 1..Len(DataInput(stores[s].texts, stores[s].metadatas)) :
            /\ Merged(s, j)
            /\ HashStored(stores[s].texts[j])
            /\ RowOfText(stores[s].texts[j]).metadata
                  # DataInput(stores[s].texts, stores[s].metadatas)[j][2]

\* the document and score the search builds of a row
DocOf(r, q) ==
    [page_content |-> r.text, metadata |-> r.metadata,
     similarity   |-> VectorCosineSimilarity(r.text_embedding, q)]

\* C5: a search that succeeds on a table of n records returns min(k, n)
\* documents of distinct records, no omitted record scores strictly higher
\* than a returned one, and the scores are listed in non-increasing order.
C5_TopK ==
    lastSearch.status = "ok" =>
        LET docs == lastSearch.documents
            q == lastSearch.embedding
            n == Len(table.rows)
        IN /\ Len(docs) = Min(lastSearch.k, n)
           /\ \A i, j \in 1..Len(docs) :
                 i < j => ~ScoreLess(docs[i].similarity, docs[j].similarity)
           /\ \E f \in [1..Len(docs) -> 1..n] :
                 /\ \A i, j \in 1..Len(docs) : f[i] = f[j] => i = j
                 /\ \A j \in 1..Len(docs) : docs[j] = DocOf(table.rows[f[j]], q)
                 /\ \A r \in 1..n :
                       (\A j \in 1..Len(docs) : f[j] # r)
                       => \A j \in 1..Len(docs) :
                             ~ScoreLess(docs[j].similarity,
                                        DocOf(table.rows[r], q).similarity)

\* a search with k = 1 on two records of different score
C5_Witness ==
    /\ lastSearch.status = "ok"
    /\ lastSearch.k = 1
    /\ Len(table.rows) = 2
    /\ ScoreLess(DocOf(table.rows[1], lastSearch.embedding).similarity,
                 DocOf(table.rows[2], lastSearch.embedding).similarity)

\* the row id of the record a returned document was built of
RowIdOfDoc(d) == (CHOOSE r \in RowSet : r.text = d.page_content).rowid

\* C6: records of equal score are listed, and retained at the cut-off at k,
\* in ascending order of row id.
C6_TiesByRowId ==
    lastSearch.status = "ok" =>
        LET docs == lastSearch.documents
            q == lastSearch.embedding
        IN /\ \A i, j \in 1..Len(docs) :
                 (i < j /\ ScoreEq(docs[i].similarity, docs[j].similarity))
                 => RowIdOfDoc(docs[i]) < RowIdOfDoc(docs[j])
           /\ \A r \in RowSet : \A j \in 1..Len(docs) :
                 (/\ \A i \in 1..Len(docs) : docs[i].page_content # r.text
                  /\ ScoreEq(docs[j].similarity, DocOf(r, q).similarity))
                 => RowIdOfDoc(docs[j]) < r.rowid

\* C7: a search by a vector whose length is not the store's vector_length
\* fails with DimensionMismatch and sends no statement to the backing store.
C7_DimensionGuard ==
    (/\ lastSearch.status # "none"
     /\ Len(lastSearch.embedding) # lastSearch.vector_length)
    => (lastSearch.status = "DimensionMismatch" /\ lastSearch.issued = 0)

\* C8: constructing a store with a vector_length that differs from the width
\* of the embedding column of the existing table fails, so no store instance
\* exists whose vector_length differs from the width of its table.
C8_SchemaConflict ==
    \A s \in StoreIds :
        stores[s].pc # "none" => stores[s].vector_length = table.width

\* C9: when the MERGE statement of item i is rejected, add_texts ends there
\* with the failure: the table is as the items before i left it, the items
\* before i are stored, no statement of a later item is sent and nothing is
\* returned.
C9_StopAtFirstFailure ==
    /\ [](\A s \in StoreIds :
            stores[s].status = "WriteFailure" =>
                /\ stores[s].pc = "idle"
                /\ stores[s].result = <<>>
                /\ \A j \in 1..(stores[s].i - 1) : HashStored(stores[s].texts[j]))
    /\ [][\A s \in StoreIds :
            (/\ stores[s].pc = "merge"
             /\ StepOf(s)
             /\ MergeRejected(table, stores[s].vector_length,
                              DataInput(stores[s].texts, stores[s].metadatas)[stores[s].i]))
            => /\ table' = table
               /\ stores'[s].status = "WriteFailure"
               /\ stores'[s].i = stores[s].i
               /\ stores'[s].texts = stores[s].texts]_vars

\* a call failed at its second item, after the first was stored
C9_Witness ==
    \E s \in StoreIds :
        /\ stores[s].status = "WriteFailure"
        /\ stores[s].i = 2
        /\ stores[s].vector_length = table.width
        /\ HashStored(stores[s].texts[1])

\* C10: records are write-once: every record of the table stays in it, with
\* its rowid, rowhash, text, metadata and embedding, whatever step is taken.
C10_WriteOnce ==
    [][\A j \in 1..Len(table.rows) :
          \E m \in 1..Len(table'.rows) : table'.rows[m] = table.rows[j]]_vars

\* a second store instance was constructed and a search answered on a table
\* of two records
C10_Witness ==
    /\ Len(table.rows) = 2
    /\ \A s \in StoreIds : stores[s].pc # "none"
    /\ lastSearch.status = "ok"

\* the store a constructor call with the default vector_length yields
ConstructedDefault == [NewStore EXCEPT !.pc = "idle", !.vector_length = VECTOR_LENGTH]

C15_ReturnsOwnRows ==
    \A s \in StoreIds :
        (stores[s].pc = "idle" /\ stores[s].status = "ok")
        => \A j \in 1..Len(stores[s].result) :
              \E r \in RowSet :
                 /\ r.rowid = stores[s].result[j]
                 /\ \E m \in 1..Len(stores[s].texts) :
                       r.rowhash = Sha256Hex(stores[s].texts[m])

\* C16: when add_texts(texts, metadatas) returns without error, the table
\* holds a record with the rowhash of every element of texts, whatever the
\* length of metadatas.
C16_EveryTextStored ==
    \A s \in StoreIds :
        (stores[s].pc = "idle" /\ stores[s].status = "ok")
        => \A j \in 1..Len(stores[s].texts) : HashStored(stores[s].texts[j])

----------------------------------------------------------------------------
(* Properties of the chat message history *)

\* the messages of the log that were appended under session_id, in the
\* order in which they were appended
RECURSIVE AppendedTo(_, _)
AppendedTo(log, session_id) ==
    IF log = <<>> THEN <<>>
    ELSE (IF Head(log).session_id = session_id THEN <<Head(log).message>>
          ELSE <<>>) \o AppendedTo(Tail(log), session_id)

\* how many times x occurs in seq
Count(seq, x) == Cardinality({j \in 1..Len(seq) : seq[j] = x})

\* the lists get_messages may return for session_id in the current state
GetResults(session_id) ==
    {MessagesFromRecords(messageTable, order) :
        order \in OrderByCreatedAtAsc(messageTable,
                     WhereSessionId(messageTable, GetMessagesQuery(session_id)))}

\* C12: get_messages returns the messages appended under its session id in
\* the order in which they were appended (the appended batches one after the
\* other, each in its given order).
C12_InsertionOrder ==
    lastReturn.op = "get_messages"
    => lastReturn.result = AppendedTo(appended, lastReturn.session_id)

\* C13: when clear() has returned on a history bound to a session id,
\* get_messages on that session id returns the empty list.
C13_ClearEmptiesSession ==
    (lastReturn.op = "clear" /\ lastReturn.status = "ok")
    => GetResults(lastReturn.session_id) = {<<>>}

C17_SessionIsolation ==
    lastReturn.op = "get_messages"
    => LET own == AppendedTo(appended, lastReturn.session_id)
       IN \A j \in 1..Len(appended) :
             Count(lastReturn.result, appended[j].message)
                = Count(own, appended[j].message)
          /\ Len(lastReturn.result) = Len(own)

\* get_messages has returned a non-empty list after another session's INSERT
\* came between two INSERTs of its own session
C17_Witness ==
    /\ lastReturn.op = "get_messages"
    /\ lastReturn.result # <<>>
    /\ \E i, j, k \in 1..Len(appended) :
          /\ i < j /\ j < k
          /\ appended[i].session_id = lastReturn.session_id
          /\ appended[k].session_id = lastReturn.session_id
          /\ appended[j].session_id # lastReturn.session_id

====
